---- MODULE Spec2Model ----
(***************************************************************************)
(* State-machine model of the winfomi helper bot.                          *)
(*                                                                         *)
(*   ingest.py : the batch ingestion process (crawl the seeds, drop        *)
(*               duplicates, chunk, embed and upsert to the namespace).    *)
(*   server.py : the serving process (module start-up, GET /suggestions,   *)
(*               POST /chat).                                              *)
(*                                                                         *)
(* The two processes share nothing but the remote namespace, so each has   *)
(* its own specification: Spec (ingestion), ServeSpec (serving) and        *)
(* FairServeSpec (serving, with the fairness that lets an accepted request *)
(* run to its response).  The crawler, the text splitter, the embedding    *)
(* and vector-index provider and the chat provider are libraries and       *)
(* hosted services: what they return is the environment's choice.          *)
(***************************************************************************)
EXTENDS Integers, Sequences, FiniteSets, TLC

(***************************************************************************)
(* Bounds of the model.                                                    *)
(***************************************************************************)
\* Most documents one ingestion run accumulates over all seeds.
MaxDocs == 2
\* Longest text of an exception raised inside chain.invoke.
MaxMsgLen == 3

(***************************************************************************)
(* ingest.py: constants                                                    *)
(***************************************************************************)
START_URLS ==
    << "https://www.winfomi.com/",
       "https://www.winfomi.com/services",
       "https://www.winfomi.com/products",
       "https://www.winfomi.com/about",
       "https://www.winfomi.com/contact" >>

\* The pages a crawl can return: two pages of the site and one page of
\* another site (prevent_outside=False lets the loader leave the site).
OutsidePage == "https://twitter.com/share"
Sources == { "https://www.winfomi.com/", "https://www.winfomi.com/services", OutsidePage }

\* A page that only an earlier ingestion run loaded.
OldPage == "https://www.winfomi.com/old-page"

\* `"winfomi.com" in d.metadata['source']`, over the URLs of the model.
HasWinfomi(url) == url \in { "https://www.winfomi.com/", "https://www.winfomi.com/services",
                             "https://www.winfomi.com/products", "https://www.winfomi.com/about",
                             "https://www.winfomi.com/contact", OldPage }

\* A Document: metadata['source'] and page_content.  The content of a page is
\* identified by the crawl that fetched it (the index of the seed), so two
\* documents of one URL fetched by different seeds are told apart.
Doc(src, fetch) == [source |-> src, content |-> fetch]

VARIABLES
    \* ---- ingestion process
    pineconeKey,   \* PINECONE_API_KEY is set in the environment of ingest.py
    ipc,           \* position of the ingestion process
    idx,           \* index into START_URLS of the seed the loop is at
    loads,         \* what loader.load() did for each seed attempted so far
    all_docs,      \* all_docs
    unique_docs,   \* unique_docs
    splits,        \* splits
    stdout,        \* the lines printed so far
    providerError, \* the embedding / upsert provider call raised
    exitCode,      \* exit status of the process, -1 while it runs
    namespace,     \* records held by the Pinecone namespace "helper-agent"
    \* ---- serving process
    groqKey,       \* GROQ_API_KEY is set in the environment of server.py
    srvPineconeKey,\* PINECONE_API_KEY is set in the environment of server.py
    spc,           \* position of module start-up
    chainBuilt,    \* app, vectorstore, retriever, llm and chain exist
    sugFile,       \* state of suggestions.json on disk
    sugResp,       \* response of the GET /suggestions being answered
    cpc,           \* position of the POST /chat being handled
    question,      \* request.message
    embedCalls,    \* embedding calls made for this request
    queryCalls,    \* vector-query calls made for this request
    llmCalls,      \* chat-completion attempts made for this request
    raised,        \* the exception chain.invoke raised, or NoError
    chatResp       \* response of the POST /chat being handled

ingestVars == << pineconeKey, ipc, idx, loads, all_docs, unique_docs, splits,
                 stdout, providerError, exitCode, namespace >>
serveVars == << groqKey, srvPineconeKey, spc, chainBuilt, sugFile, sugResp,
                cpc, question, embedCalls, queryCalls, llmCalls, raised, chatResp >>
vars == << ingestVars, serveVars >>

(***************************************************************************)
(* ingest.py: helpers                                                      *)
(***************************************************************************)
\* Sequences over S of length at most n.
SeqsUpTo(S, n) == UNION { [1..k -> S] : k \in 0..n }

\* {doc.metadata['source']: doc for doc in all_docs}: a dict keeps its keys in
\* the order of their first insertion, and a later value replaces an earlier.
EmptyDict == [keys |-> << >>, val |-> << >>]

DictInsertKeepFirst(d, k, v) ==
    IF k \in DOMAIN d.val
    THEN d
    ELSE [keys |-> Append(d.keys, k),
          val  |-> [x \in DOMAIN d.val \cup {k} |-> IF x = k THEN v ELSE d.val[x]]]

DictInsert(d, k, v) ==
    IF k \in DOMAIN d.val
    THEN [keys |-> d.keys,
          val  |-> [x \in DOMAIN d.val |-> IF x = k THEN v ELSE d.val[x]]]
    ELSE [keys |-> Append(d.keys, k),
          val  |-> [x \in DOMAIN d.val \cup {k} |-> IF x = k THEN v ELSE d.val[x]]]

RECURSIVE DictOfDocs(_)
DictOfDocs(docs) ==
    IF docs = << >>
    THEN EmptyDict
    ELSE LET n == Len(docs)
         IN  DictInsert(DictOfDocs(SubSeq(docs, 1, n - 1)), docs[n].source, docs[n])

\* dict.values()
DictValues(d) == [i \in 1..Len(d.keys) |-> d.val[d.keys[i]]]

\* Number of chunks the splitter cuts a page into (chunk_size=1000,
\* chunk_overlap=200): the home page of the modelled site is longer than one
\* chunk, every other page fits in one.
PageChunks(src) == IF src = "https://www.winfomi.com/" THEN 2 ELSE 1

\* text_splitter.split_documents(docs): the chunks of each document, in the
\* order of the documents, each carrying the metadata of its document.
RECURSIVE SplitDocuments(_)
SplitDocuments(docs) ==
    IF docs = << >>
    THEN << >>
    ELSE LET n == Len(docs)
             d == docs[n]
         IN  SplitDocuments(SubSeq(docs, 1, n - 1)) \o
             [i \in 1..PageChunks(d.source) |->
                 [source |-> d.source, content |-> d.content, part |-> i]]

\* The records an upsert of the first k chunks writes (ids are fresh, so the
\* records of this run never coincide with records of an earlier run).
Stored(chunks, k, run) ==
    { [source |-> chunks[i].source, content |-> chunks[i].content,
       part |-> chunks[i].part, run |-> run] : i \in 1..k }

\* What an earlier run over OldPage left in the namespace.
PriorRunRecords == Stored(SplitDocuments(<< Doc(OldPage, 1) >>), 1, 0)

(***************************************************************************)
(* ingest.py: the process                                                  *)
(***************************************************************************)
IngestInit ==
    /\ pineconeKey \in BOOLEAN
    /\ ipc = "start"
    /\ idx = 1
    /\ loads = << >>
    /\ all_docs = << >>
    /\ unique_docs = << >>
    /\ splits = << >>
    /\ stdout = << >>
    /\ providerError = FALSE
    /\ exitCode = -1
    /\ namespace \in { {}, PriorRunRecords }

\* Module level: load_dotenv(), PINECONE_API_KEY = os.getenv(...), then
\* ingest_data() is called; the key is not looked at.
IngestModuleLoad ==
    /\ ipc = "start"
    /\ ipc' = "crawl"
    /\ UNCHANGED << pineconeKey, idx, loads, all_docs, unique_docs, splits,
                    stdout, providerError, exitCode, namespace >>
    /\ UNCHANGED serveVars

\* One pass of the loop body in which loader.load() returns docs.
CrawlLoaded ==
    /\ ipc = "crawl"
    /\ idx <= Len(START_URLS)
    /\ \E docs \in SeqsUpTo({ Doc(s, idx) : s \in Sources }, MaxDocs - Len(all_docs)) :
          /\ loads' = Append(loads, [url |-> START_URLS[idx], raised |-> FALSE, docs |-> docs])
          /\ all_docs' = all_docs \o docs
          /\ stdout' = stdout \o << "CRAWLING", "Found valid pages", "Loaded" >>
    /\ idx' = idx + 1
    /\ UNCHANGED << pineconeKey, ipc, unique_docs, splits, providerError, exitCode, namespace >>
    /\ UNCHANGED serveVars

\* One pass of the loop body in which the load raises: except Exception prints.
CrawlAborts ==
    /\ ipc = "crawl"
    /\ idx <= Len(START_URLS)
    /\ loads' = Append(loads, [url |-> START_URLS[idx], raised |-> TRUE, docs |-> << >>])
    /\ stdout' = stdout \o << "CRAWLING", "Failed to load" >>
    /\ ipc' = "failed"
    /\ exitCode' = 1
    /\ UNCHANGED << pineconeKey, idx, all_docs, unique_docs, splits, providerError, namespace >>
    /\ UNCHANGED serveVars

CrawlRaised ==
    /\ ipc = "crawl"
    /\ idx <= Len(START_URLS)
    /\ loads' = Append(loads, [url |-> START_URLS[idx], raised |-> TRUE, docs |-> << >>])
    /\ stdout' = stdout \o << "CRAWLING", "Failed to load" >>
    /\ idx' = idx + 1
    /\ UNCHANGED << pineconeKey, ipc, all_docs, unique_docs, splits, providerError,
                    exitCode, namespace >>
    /\ UNCHANGED serveVars

\* unique_docs = {...}.values(), after the loop.
Dedup ==
    /\ ipc = "crawl"
    /\ idx > Len(START_URLS)
    /\ unique_docs' = DictValues(DictOfDocs(all_docs))
    /\ stdout' = Append(stdout, "Total Unique Pages Scraped")
    /\ ipc' = "chunk"
    /\ UNCHANGED << pineconeKey, idx, loads, all_docs, splits, providerError, exitCode, namespace >>
    /\ UNCHANGED serveVars

Chunk ==
    /\ ipc = "chunk"
    /\ splits' = SplitDocuments(unique_docs)
    /\ stdout' = Append(stdout, "CHUNKING")
    /\ ipc' = "upload"
    /\ UNCHANGED << pineconeKey, idx, loads, all_docs, unique_docs, providerError,
                    exitCode, namespace >>
    /\ UNCHANGED serveVars

UploadDoneSwallow ==
    /\ ipc = "upload"
    /\ providerError' = TRUE
    /\ stdout' = stdout \o << "UPLOADING", "Success" >>
    /\ ipc' = "done"
    /\ exitCode' = 0
    /\ UNCHANGED << pineconeKey, idx, loads, all_docs, unique_docs, splits, namespace >>
    /\ UNCHANGED serveVars

\* PineconeEmbeddings(...) and PineconeVectorStore.from_documents(...) succeed:
\* the chunks are added to the namespace; nothing is deleted first.
UploadDone ==
    /\ ipc = "upload"
    /\ pineconeKey
    /\ namespace' = namespace \cup Stored(splits, Len(splits), 1)
    /\ stdout' = stdout \o << "UPLOADING", "Success" >>
    /\ ipc' = "done"
    /\ exitCode' = 0
    /\ UNCHANGED << pineconeKey, idx, loads, all_docs, unique_docs, splits, providerError >>
    /\ UNCHANGED serveVars

\* The provider call raises (always so without a key) after the first k chunks
\* were written; nothing catches it, the process ends with a traceback.
UploadRaised ==
    /\ ipc = "upload"
    /\ \E k \in 0..Len(splits) :
          /\ ~pineconeKey => k = 0
          /\ namespace' = namespace \cup Stored(splits, k, 1)
    /\ providerError' = TRUE
    /\ stdout' = Append(stdout, "UPLOADING")
    /\ ipc' = "failed"
    /\ exitCode' = 1
    /\ UNCHANGED << pineconeKey, idx, loads, all_docs, unique_docs, splits >>
    /\ UNCHANGED serveVars

IngestNext ==
    \/ IngestModuleLoad
    \/ CrawlLoaded
    \/ CrawlRaised
    \/ Dedup
    \/ Chunk
    \/ UploadDone
    \/ UploadRaised

(***************************************************************************)
(* server.py: constants and helpers                                        *)
(***************************************************************************)
\* ChatGroq(max_retries=2)
max_retries == 2

CoolDownMessage == "I'm receiving too many questions right now. Please wait 10 seconds and try again."
GenericMessage == "I'm having trouble connecting to the server. Please try again later."

\* Texts of exceptions: strings over the characters of "429".
Chars == { "4", "2", "9" }
Messages == SeqsUpTo(Chars, MaxMsgLen)

\* "429" in error_msg
Contains429(s) ==
    \E i \in 1..(Len(s) - 2) : s[i] = "4" /\ s[i + 1] = "2" /\ s[i + 2] = "9"

\* What an upstream call can raise.  A rate-limit failure is the provider's
\* status 429, and the client library puts the status code in the text
\* ("Error code: 429 - ..."); the text of any other failure is arbitrary.
ErrorKinds == { "RateLimit", "Timeout", "ServerError", "ClientError" }
Errors ==
    { [kind |-> k, msg |-> m] : k \in ErrorKinds, m \in Messages } \
    { [kind |-> "RateLimit", msg |-> m] : m \in { x \in Messages : ~Contains429(x) } }
NoError == [kind |-> "none", msg |-> << >>]

\* str(e)
Str(e) == e.msg

\* The chat client retries what may be transient: rate limits, timeouts and
\* server errors; a client error is raised at once.
Retryable(e) == e.kind \in { "RateLimit", "Timeout", "ServerError" }

\* After `calls` failed attempts another attempt is made while the retries
\* used so far (calls - 1) are fewer than max_retries.
MayRetryOffByOne(calls) == calls <= max_retries + 1
MayRetry(calls) == calls <= max_retries

NoResponse == [status |-> 0, body |-> [none |-> TRUE]]
Ok200(body) == [status |-> 200, body |-> body]
\* An exception that leaves a handler: the framework answers 500.
ServerError500 == [status |-> 500, body |-> [detail |-> "Internal Server Error"]]

\* The except branch of chat_endpoint.
ErrorResponsePropagating(e) ==
    IF Contains429(Str(e))
    THEN Ok200([response |-> CoolDownMessage])
    ELSE ServerError500

ErrorResponse(e) ==
    IF Contains429(Str(e))
    THEN Ok200([response |-> CoolDownMessage])
    ELSE Ok200([response |-> GenericMessage])

\* suggestions.json on disk: absent; present but not openable (no read
\* permission, a directory); or present with a content that json.load either
\* rejects or turns into a value.
JsonValues ==
    { [type |-> "list", items |-> << >>],
      [type |-> "list", items |-> << "What services do you offer?" >>],
      [type |-> "list", items |-> << "What services do you offer?", "How do I contact sales?" >>],
      [type |-> "dict", items |-> << >>],
      [type |-> "string", items |-> << >>] }
FileStates ==
    { [exists |-> FALSE, readable |-> FALSE, valid |-> FALSE, data |-> [type |-> "none", items |-> << >>]],
      [exists |-> TRUE, readable |-> FALSE, valid |-> FALSE, data |-> [type |-> "none", items |-> << >>]],
      [exists |-> TRUE, readable |-> TRUE, valid |-> FALSE, data |-> [type |-> "none", items |-> << >>]] }
    \cup { [exists |-> TRUE, readable |-> TRUE, valid |-> TRUE, data |-> v] : v \in JsonValues }

\* get_suggestions()
SuggestionsResponse(f) ==
    IF f.exists
    THEN IF ~f.readable
         THEN ServerError500                            \* open() raises outside the try
         ELSE IF f.valid /\ f.data.type = "list"
              THEN Ok200([suggestions |-> f.data.items])
              ELSE Ok200([suggestions |-> << >>])      \* json.load raised, or not a list
    ELSE Ok200([suggestions |-> << >>])

Questions == { "price", "hello" }
Answers == { "", "Our pricing is customized." }

(***************************************************************************)
(* server.py: the process                                                  *)
(***************************************************************************)
ServeInit ==
    /\ groqKey \in BOOLEAN
    /\ srvPineconeKey \in BOOLEAN
    /\ spc = "start"
    /\ chainBuilt = FALSE
    /\ sugFile \in FileStates
    /\ sugResp = NoResponse
    /\ cpc = "idle"
    /\ question = ""
    /\ embedCalls = 0
    /\ queryCalls = 0
    /\ llmCalls = 0
    /\ raised = NoError
    /\ chatResp = NoResponse

requestVars == << sugResp, cpc, question, embedCalls, queryCalls, llmCalls, raised, chatResp >>

\* Module start-up without one of the keys: raise ValueError.
StartupMissingKeys ==
    /\ spc = "start"
    /\ ~groqKey \/ ~srvPineconeKey
    /\ spc' = "crashed"
    /\ UNCHANGED << groqKey, srvPineconeKey, chainBuilt, sugFile, requestVars >>
    /\ UNCHANGED ingestVars

\* Module start-up with both keys: app, embeddings, vectorstore, retriever,
\* llm, prompt and chain are constructed.
StartupNoKeyCheck ==
    /\ spc = "start"
    /\ spc' = "ready"
    /\ chainBuilt' = TRUE
    /\ UNCHANGED << groqKey, srvPineconeKey, sugFile, requestVars >>
    /\ UNCHANGED ingestVars

StartupReady ==
    /\ spc = "start"
    /\ groqKey /\ srvPineconeKey
    /\ spc' = "ready"
    /\ chainBuilt' = TRUE
    /\ UNCHANGED << groqKey, srvPineconeKey, sugFile, requestVars >>
    /\ UNCHANGED ingestVars

\* Module start-up with both keys, but connecting to the index raises.
StartupProviderRaised ==
    /\ spc = "start"
    /\ groqKey /\ srvPineconeKey
    /\ spc' = "crashed"
    /\ UNCHANGED << groqKey, srvPineconeKey, chainBuilt, sugFile, requestVars >>
    /\ UNCHANGED ingestVars

\* suggestions.json is maintained outside the service; get_suggestions reads
\* it in one step, so an edit falls between two requests.
EditSuggestionsFile ==
    /\ sugResp = NoResponse
    /\ \E f \in FileStates \ { sugFile } : sugFile' = f
    /\ UNCHANGED << groqKey, srvPineconeKey, spc, chainBuilt, requestVars >>
    /\ UNCHANGED ingestVars

\* GET /suggestions
GetSuggestions ==
    /\ spc = "ready"
    /\ sugResp = NoResponse
    /\ sugResp' = SuggestionsResponse(sugFile)
    /\ UNCHANGED << groqKey, srvPineconeKey, spc, chainBuilt, sugFile,
                    cpc, question, embedCalls, queryCalls, llmCalls, raised, chatResp >>
    /\ UNCHANGED ingestVars

\* The response of GET /suggestions has been sent.
SuggestionsSent ==
    /\ sugResp # NoResponse
    /\ sugResp' = NoResponse
    /\ UNCHANGED << groqKey, srvPineconeKey, spc, chainBuilt, sugFile,
                    cpc, question, embedCalls, queryCalls, llmCalls, raised, chatResp >>
    /\ UNCHANGED ingestVars

serverVars == << groqKey, srvPineconeKey, spc, chainBuilt, sugFile, sugResp >>

\* POST /chat with a valid body arrives: chain.invoke(request.message) starts.
ChatReceive ==
    /\ spc = "ready"
    /\ cpc = "idle"
    /\ \E q \in Questions : question' = q
    /\ cpc' = "embed"
    /\ embedCalls' = 0
    /\ queryCalls' = 0
    /\ llmCalls' = 0
    /\ raised' = NoError
    /\ chatResp' = NoResponse
    /\ UNCHANGED serverVars
    /\ UNCHANGED ingestVars

\* chain.invoke raised e: the except branch builds the response.
Fail(e) ==
    /\ raised' = e
    /\ chatResp' = ErrorResponse(e)
    /\ cpc' = "responded"

\* The retriever embeds the question.
EmbedOk ==
    /\ cpc = "embed"
    /\ embedCalls' = embedCalls + 1
    /\ cpc' = "query"
    /\ UNCHANGED << serverVars, question, queryCalls, llmCalls, raised, chatResp >>
    /\ UNCHANGED ingestVars

EmbedRaised ==
    /\ cpc = "embed"
    /\ embedCalls' = embedCalls + 1
    /\ \E e \in Errors : Fail(e)
    /\ UNCHANGED << serverVars, question, queryCalls, llmCalls >>
    /\ UNCHANGED ingestVars

\* The retriever queries the namespace.
QueryOk ==
    /\ cpc = "query"
    /\ queryCalls' = queryCalls + 1
    /\ cpc' = "llm"
    /\ UNCHANGED << serverVars, question, embedCalls, llmCalls, raised, chatResp >>
    /\ UNCHANGED ingestVars

QueryRaised ==
    /\ cpc = "query"
    /\ queryCalls' = queryCalls + 1
    /\ \E e \in Errors : Fail(e)
    /\ UNCHANGED << serverVars, question, embedCalls, llmCalls >>
    /\ UNCHANGED ingestVars

\* One attempt of the chat completion succeeds: the text is returned as is.
LlmOk ==
    /\ cpc = "llm"
    /\ llmCalls' = llmCalls + 1
    /\ \E a \in Answers : chatResp' = Ok200([response |-> a])
    /\ cpc' = "responded"
    /\ UNCHANGED << serverVars, question, embedCalls, queryCalls, raised >>
    /\ UNCHANGED ingestVars

\* One attempt fails with something retryable and a retry is left.
LlmRetry ==
    /\ cpc = "llm"
    /\ MayRetry(llmCalls + 1)
    /\ llmCalls' = llmCalls + 1
    /\ \E e \in Errors : Retryable(e)
    /\ UNCHANGED << serverVars, cpc, question, embedCalls, queryCalls, raised, chatResp >>
    /\ UNCHANGED ingestVars

\* One attempt fails and the client gives up: not retryable, or no retry left.
LlmRaised ==
    /\ cpc = "llm"
    /\ llmCalls' = llmCalls + 1
    /\ \E e \in Errors :
          /\ ~Retryable(e) \/ ~MayRetry(llmCalls + 1)
          /\ Fail(e)
    /\ UNCHANGED << serverVars, question, embedCalls, queryCalls >>
    /\ UNCHANGED ingestVars

\* The response of POST /chat has been sent.
ChatSent ==
    /\ cpc = "responded"
    /\ cpc' = "idle"
    /\ chatResp' = NoResponse
    /\ raised' = NoError
    /\ UNCHANGED << serverVars, question, embedCalls, queryCalls, llmCalls >>
    /\ UNCHANGED ingestVars

\* The steps of chain.invoke.
ChainStep ==
    \/ EmbedOk
    \/ EmbedRaised
    \/ QueryOk
    \/ QueryRaised
    \/ LlmOk
    \/ LlmRetry
    \/ LlmRaised

ServeNext ==
    \/ StartupMissingKeys
    \/ StartupReady
    \/ StartupProviderRaised
    \/ EditSuggestionsFile
    \/ GetSuggestions
    \/ SuggestionsSent
    \/ ChatReceive
    \/ EmbedOk
    \/ EmbedRaised
    \/ QueryOk
    \/ QueryRaised
    \/ LlmOk
    \/ LlmRetry
    \/ LlmRaised
    \/ ChatSent

(***************************************************************************)
(* Specifications                                                          *)
(***************************************************************************)
\* The serving process has not been started.
ServeOff ==
    /\ groqKey = TRUE
    /\ srvPineconeKey = TRUE
    /\ spc = "start"
    /\ chainBuilt = FALSE
    /\ sugFile = [exists |-> FALSE, readable |-> FALSE, valid |-> FALSE,
                  data |-> [type |-> "none", items |-> << >>]]
    /\ sugResp = NoResponse
    /\ cpc = "idle"
    /\ question = ""
    /\ embedCalls = 0
    /\ queryCalls = 0
    /\ llmCalls = 0
    /\ raised = NoError
    /\ chatResp = NoResponse

\* The ingestion process has not been started.
IngestOff ==
    /\ pineconeKey = TRUE
    /\ ipc = "start"
    /\ idx = 1
    /\ loads = << >>
    /\ all_docs = << >>
    /\ unique_docs = << >>
    /\ splits = << >>
    /\ stdout = << >>
    /\ providerError = FALSE
    /\ exitCode = -1
    /\ namespace = {}

Init == IngestInit /\ ServeOff
Next == IngestNext
Spec == Init /\ [][Next]_vars

InitServe == ServeInit /\ IngestOff
NextServe == ServeNext
ServeSpec == InitServe /\ [][NextServe]_vars

\* An accepted request is run by a worker of the server, and every upstream
\* call returns or fails (timeout=10 on the chat client), so a step of the
\* chain that can be taken is taken.
FairServeSpec == ServeSpec /\ WF_vars(ChainStep)

(***************************************************************************)
(* Properties                                                              *)
(***************************************************************************)
\* C1: every POST /chat that has been answered, also one whose chain.invoke
\* raised, was answered with status 200 and a body {"response": <string>}.
C1_ChatAlwaysAnswers200 ==
    cpc = "responded" =>
        /\ chatResp.status = 200
        /\ DOMAIN chatResp.body = { "response" }
        /\ chatResp.body.response \in STRING

\* A request whose chain raised a timeout that does not mention 429 was answered.
C1_Witness ==
    /\ cpc = "responded"
    /\ raised.kind = "Timeout"
    /\ ~Contains429(Str(raised))
    /\ chatResp.status = 200

\* C2: when chain.invoke fails, the answer is the cool-down message if and only
\* if the failure is an upstream rate limit (429), and the generic message for
\* every other failure.
C2_CoolDownIffRateLimit ==
    (cpc = "responded" /\ raised # NoError) =>
        /\ (chatResp.body.response = CoolDownMessage) <=> (raised.kind = "RateLimit")
        /\ (raised.kind # "RateLimit") => (chatResp.body.response = GenericMessage)

\* C3: after a finished run the namespace holds exactly the chunks of that run.
C3_NamespaceFullReplace ==
    ipc = "done" => namespace = Stored(splits, Len(splits), 1)

SourcesOf(docs) == { docs[i].source : i \in 1..Len(docs) }
LastIndexOf(docs, s) ==
    CHOOSE i \in 1..Len(docs) :
        /\ docs[i].source = s
        /\ \A j \in (i + 1)..Len(docs) : docs[j].source # s
PastDedup == ipc \in { "chunk", "upload", "done", "failed" }

\* C4: unique_docs holds exactly one document per source of all_docs, and it is
\* the last document of all_docs with that source.
C4_DedupKeepsLast ==
    PastDedup =>
        /\ SourcesOf(unique_docs) = SourcesOf(all_docs)
        /\ Len(unique_docs) = Cardinality(SourcesOf(all_docs))
        /\ \A i \in 1..Len(unique_docs) :
              unique_docs[i] = all_docs[LastIndexOf(all_docs, unique_docs[i].source)]

\* Two different documents of one source were accumulated and deduplicated.
C4_Witness ==
    /\ PastDedup
    /\ Len(all_docs) = 2
    /\ all_docs[1].source = all_docs[2].source
    /\ all_docs[1] # all_docs[2]
    /\ unique_docs = << all_docs[2] >>

RECURSIVE DocsOfLoads(_)
DocsOfLoads(ls) ==
    IF ls = << >>
    THEN << >>
    ELSE LET n == Len(ls)
         IN  DocsOfLoads(SubSeq(ls, 1, n - 1)) \o (IF ls[n].raised THEN << >> ELSE ls[n].docs)

\* C5: the seeds are attempted once each in the order of START_URLS, whichever
\* loads raise; all_docs is the documents of the loads that returned, in order,
\* and nothing of a load that raised; the run goes on to dedup, chunking and
\* upload, and ends abnormally only in the upload.
C5_FetchFailureIsolated ==
    /\ Len(loads) = idx - 1
    /\ Len(loads) <= Len(START_URLS)
    /\ \A i \in 1..Len(loads) : loads[i].url = START_URLS[i]
    /\ all_docs = DocsOfLoads(loads)
    /\ (ipc \notin { "start", "crawl" }) => (Len(loads) = Len(START_URLS))
    /\ (ipc = "crawl" /\ idx > Len(START_URLS)) => ENABLED Dedup
    /\ (ipc = "failed") => (\E i \in 1..Len(stdout) : stdout[i] = "UPLOADING")

\* A run in which a load raised, a later load returned a document, and the
\* upload was reached.
C5_Witness ==
    /\ ipc = "upload"
    /\ \E i, j \in 1..Len(loads) : i < j /\ loads[i].raised /\ loads[j].docs # << >>
    /\ all_docs # << >>

\* C6: without its API keys the serving process never builds the app and the
\* chain, and without PINECONE_API_KEY the ingestion process never crawls,
\* chunks or uploads.
C6_MissingCredentialsFatal ==
    /\ (~groqKey \/ ~srvPineconeKey) => ~chainBuilt
    /\ ~pineconeKey => (loads = << >> /\ ipc \notin { "chunk", "upload", "done" })

\* C7: GET /suggestions answers 200 whatever the state of suggestions.json:
\* the list of the file when it parses to a list, an empty list otherwise.
C7_SuggestionsNeverFail ==
    sugResp # NoResponse =>
        /\ sugResp.status = 200
        /\ sugResp.body =
              [suggestions |->
                  IF sugFile.exists /\ sugFile.valid /\ sugFile.data.type = "list"
                  THEN sugFile.data.items
                  ELSE << >>]

IsStageLine(l) == l \in { "Total Unique Pages Scraped", "CHUNKING", "UPLOADING", "Success" }
IsCrawlLine(l) == l \in { "CRAWLING", "Found valid pages", "Loaded", "Failed to load" }
Printed(l) == \E i \in 1..Len(stdout) : stdout[i] = l

\* C8: a run ends either with exit 0, after crawl, dedup, chunking and upload in
\* that order and the success message, or with a non-zero exit after the
\* provider call raised and without the success message; a provider failure is
\* never followed by the success message.
C8_RunOutcome ==
    /\ exitCode \in { -1, 0, 1 }
    /\ (exitCode = 0) <=> (ipc = "done")
    /\ (exitCode = 1) <=> (ipc = "failed")
    /\ (ipc = "done") =>
          /\ ~providerError
          /\ SelectSeq(stdout, IsStageLine) =
                << "Total Unique Pages Scraped", "CHUNKING", "UPLOADING", "Success" >>
          /\ \A i \in 1..(Len(stdout) - 4) : IsCrawlLine(stdout[i])
          /\ Len(SelectSeq(stdout, LAMBDA l : l = "CRAWLING")) = Len(START_URLS)
          /\ Stored(splits, Len(splits), 1) \subseteq namespace
    /\ (ipc = "failed") => (providerError /\ ~Printed("Success"))
    /\ providerError => (exitCode = 1 /\ ~Printed("Success"))
    /\ Printed("Success") <=> (exitCode = 0)

\* A run with the key set whose upload raised after some chunks were written.
C8_Witness ==
    /\ ipc = "failed"
    /\ pineconeKey
    /\ providerError
    /\ exitCode = 1
    /\ splits # << >>
    /\ Stored(splits, 1, 1) \subseteq namespace

InFlight == cpc \in { "embed", "query", "llm" }

C9_Bounded ==
    /\ llmCalls <= 1 + max_retries
    /\ embedCalls <= 1
    /\ queryCalls <= 1
    /\ (InFlight /\ cpc # "llm") => llmCalls = 0
    /\ (cpc = "responded" /\ raised # NoError) =>
          chatResp.body.response \in { CoolDownMessage, GenericMessage }

C10_OnlySiteDocuments ==
    /\ \A i \in 1..Len(all_docs) : HasWinfomi(all_docs[i].source)
    /\ \A i \in 1..Len(unique_docs) : HasWinfomi(unique_docs[i].source)
    /\ \A i \in 1..Len(splits) : HasWinfomi(splits[i].source)
    /\ \A r \in namespace : HasWinfomi(r.source)

====
